---------------------------- MODULE Spec2Model ----------------------------
(***************************************************************************)
(* Model of the maind-map LLM relay (maind-map/LLM_proxy.py and its        *)
(* single-provider predecessor maind-map/claude_proxy.py).                 *)
(*                                                                         *)
(* A Flask application with three routes: GET /api/ping, POST /api/claude  *)
(* and POST /api/chatgpt.  A provider handler reads request.json, builds   *)
(* a prompt, issues one blocking requests.post to the provider and maps    *)
(* the reply (or any exception) to a JSON envelope.                        *)
(*                                                                         *)
(* A handler is modelled by two steps, split at the one place where it     *)
(* blocks: the step up to and including the call of requests.post, and the *)
(* step from the return of requests.post to the handler's return.  Between *)
(* the two the provider (the environment) puts its reply on the wire.      *)
(***************************************************************************)
EXTENDS Integers, Sequences, FiniteSets, TLC

(***************************************************************************)
(* Bounds.                                                                 *)
(***************************************************************************)
\* Number of requests the server handles concurrently in SpecConcurrent.
MaxRequests == 2

(***************************************************************************)
(* Python values, as far as JSON produces them.                            *)
(***************************************************************************)
PyNone == [t |-> "none"]
PyStr(s) == [t |-> "str", s |-> s]
PyInt(n) == [t |-> "int", n |-> n]
PyList(items) == [t |-> "list", items |-> items]
\* A dict is a set of <<key, value>> pairs with distinct keys.
PyDict(pairs) == [t |-> "dict", d |-> pairs]

\* The value of an uninitialised local or of a slot nothing was put in.
Nothing == [nothing |-> TRUE]

\* type(v).__name__
TypeName(v) ==
  CASE v.t = "none" -> "NoneType"
    [] v.t = "str" -> "str"
    [] v.t = "int" -> "int"
    [] v.t = "list" -> "list"
    [] v.t = "dict" -> "dict"

(***************************************************************************)
(* The outcome of evaluating a Python expression: a value, or a raised     *)
(* exception of class `type` whose str() is `msg`.                         *)
(***************************************************************************)
Ok(v) == [ok |-> TRUE, v |-> v]
Raise(type, msg) == [ok |-> FALSE, type |-> type, msg |-> msg]

HasKey(v, key) == \E p \in v.d : p[1] = key
ValueAt(v, key) == (CHOOSE p \in v.d : p[1] = key)[2]

\* data.get(key, default)
DictGet(data, key, default) ==
  IF data.t = "dict"
  THEN Ok(IF HasKey(data, key) THEN ValueAt(data, key) ELSE default)
  ELSE Raise("AttributeError",
             "'" \o TypeName(data) \o "' object has no attribute 'get'")

\* v[key] for a string key
GetKey(v, key) ==
  CASE v.t = "dict" ->
         IF HasKey(v, key) THEN Ok(ValueAt(v, key))
         ELSE Raise("KeyError", "'" \o key \o "'")
    [] v.t = "list" ->
         Raise("TypeError", "list indices must be integers or slices, not str")
    [] v.t = "str" ->
         Raise("TypeError", "string indices must be integers")
    [] v.t \in {"none", "int"} ->
         Raise("TypeError", "'" \o TypeName(v) \o "' object is not subscriptable")

\* v[i] for an integer i >= 0 (Python counts from 0, Sequences from 1)
GetIdx(v, i) ==
  CASE v.t = "list" ->
         IF i < Len(v.items) THEN Ok(v.items[i + 1])
         ELSE Raise("IndexError", "list index out of range")
    [] v.t = "dict" -> Raise("KeyError", ToString(i))
    [] v.t = "str" /\ v.s = "" ->
         Raise("IndexError", "string index out of range")
    [] v.t \in {"none", "int"} ->
         Raise("TypeError", "'" \o TypeName(v) \o "' object is not subscriptable")

\* format(v, ''), what an f-string does with {v}
Format(v) ==
  CASE v.t = "str" -> v.s
    [] v.t = "none" -> "None"
    [] v.t = "int" -> ToString(v.n)


(***************************************************************************)
(* The prompt and the outbound request.                                    *)
(***************************************************************************)
Instruction ==
  "Using the mind map represented by the following Freemind XML, please answer the following question: "

\* Mutant of Message: one newline between the question and the document.
MessageOneNewline(question, freemind_xml) ==
  Instruction \o Format(question) \o "\n" \o Format(freemind_xml)

\* f"Using the mind map ... question: {question}\n\n{freemind_xml}"
Message(question, freemind_xml) ==
  Instruction \o Format(question) \o "\n\n" \o Format(freemind_xml)

\* The try block from request.json to the assignment of message.  The value
\* is the message, or the exception one of the three statements raised.
BuildMessage(request_json) ==
  IF ~request_json.ok THEN request_json
  ELSE LET data == request_json.v
           question == DictGet(data, "question", PyStr(""))
           freemind_xml == DictGet(data, "freemind_xml", PyStr(""))
       IN  IF ~question.ok THEN question
           ELSE IF ~freemind_xml.ok THEN freemind_xml
           ELSE Ok(PyStr(Message(question.v, freemind_xml.v)))

\* The two programs of the repository.
Apps == {"LLM_proxy", "claude_proxy"}

\* The provider routes an app registers.
ProviderRoutes(a) ==
  IF a = "LLM_proxy" THEN {"/api/claude", "/api/chatgpt"} ELSE {"/api/claude"}

ProviderUrl(rt) ==
  IF rt = "/api/claude" THEN "https://api.anthropic.com/v1/messages"
  ELSE "https://api.openai.com/v1/chat/completions"

ModelName(a, rt) ==
  IF rt = "/api/chatgpt" THEN "gpt-3.5-turbo"
  ELSE IF a = "LLM_proxy" THEN "claude-3-haiku-20240307"
  ELSE "claude-3-opus-20240229"

Headers(rt, claude_key, openai_key) ==
  IF rt = "/api/claude"
  THEN ("Content-Type" :> "application/json") @@ ("x-api-key" :> claude_key)
         @@ ("anthropic-version" :> "2023-06-01")
  ELSE ("Content-Type" :> "application/json")
         @@ ("Authorization" :> ("Bearer " \o openai_key))

Payload(model, message) ==
  [model |-> model,
   max_tokens |-> 4000,
   messages |-> << [role |-> "user", content |-> message] >>]

\* What requests.post(url, headers=headers, json=payload) sends.
OutboundPost(a, rt, claude_key, openai_key, message) ==
  [url |-> ProviderUrl(rt),
   headers |-> Headers(rt, claude_key, openai_key),
   json |-> Payload(ModelName(a, rt), message)]

\* The outbound calls one run of a handler makes once the message is built:
\* the single requests.post.
OutboundCalls(post) == << post >>

(***************************************************************************)
(* From the provider's reply to the envelope.                              *)
(***************************************************************************)
\* Mutant of ExtractClaude: the last content block, content[-1], not the first.
ExtractClaudeLast(claude_response) ==
  LET content == GetKey(claude_response, "content")
  IN  IF ~content.ok THEN content
      ELSE IF content.v.t = "list" /\ Len(content.v.items) > 0
      THEN GetKey(content.v.items[Len(content.v.items)], "text")
      ELSE GetIdx(content.v, 0)

\* claude_response['content'][0]['text']
ExtractClaude(claude_response) ==
  LET content == GetKey(claude_response, "content")
  IN  IF ~content.ok THEN content
      ELSE LET first == GetIdx(content.v, 0)
           IN  IF ~first.ok THEN first ELSE GetKey(first.v, "text")

\* openai_response['choices'][0]['message']['content']
ExtractChatGPT(openai_response) ==
  LET choices == GetKey(openai_response, "choices")
  IN  IF ~choices.ok THEN choices
      ELSE LET first == GetIdx(choices.v, 0)
           IN  IF ~first.ok THEN first
               ELSE LET message == GetKey(first.v, "message")
                    IN  IF ~message.ok THEN message
                        ELSE GetKey(message.v, "content")

Extract(rt, body) ==
  IF rt = "/api/claude" THEN ExtractClaude(body) ELSE ExtractChatGPT(body)

\* What a handler returns: the HTTP status and the JSON body.
Returned(status, envelope) == [http |-> status, envelope |-> envelope]

\* jsonify({'success': True, 'response': text}), with Flask's default status
SuccessReturn(text) == Returned(200, [success |-> TRUE, response |-> text])

\* Mutant of UpstreamErrorStatus: the provider's status handed on.
UpstreamStatusPropagated(status_code) == status_code

\* The HTTP status of the relay's answer to a provider status other than 200.
UpstreamErrorStatus(status_code) == 500

\* jsonify(error_response), 500
UpstreamErrorReturn(status_code, text) ==
  Returned(UpstreamErrorStatus(status_code),
           [success |-> FALSE,
            error |-> "API error: " \o ToString(status_code),
            details |-> text])

\* Mutant of ExceptReturn: the text of the exception under another key.
ExceptReturnMessage(e) == Returned(500, [success |-> FALSE, message |-> e.msg])

\* jsonify({'success': False, 'error': str(e)}), 500
ExceptReturn(e) == Returned(500, [success |-> FALSE, error |-> e.msg])

\* The classes of the exceptions the statements of a handler raise; each is a
\* subclass of Exception, which is what `except Exception` catches.
ExceptionClasses ==
  {"BadRequest", "UnsupportedMediaType", "AttributeError", "ConnectionError",
   "JSONDecodeError", "KeyError", "IndexError", "TypeError"}

\* Mutant of Caught: except requests.exceptions.RequestException as e.
CaughtRequestException(e) == e.type \in {"ConnectionError"}

\* except Exception as e
Caught(e) == e.type \in ExceptionClasses

\* The statements after requests.post returned `response`: the status test,
\* response.json() and the extraction.  The value is what the handler
\* returns, or the exception raised on the way.
AfterPost(rt, response) ==
  IF response.status_code = 200
  THEN IF ~response.json.ok THEN response.json
       ELSE LET text == Extract(rt, response.json.v)
            IN  IF ~text.ok THEN text ELSE Ok(SuccessReturn(text.v))
  ELSE Ok(UpstreamErrorReturn(response.status_code, response.text))

\* An exception no except clause of the handler catches leaves the handler.
Unhandled(e) == [unhandled |-> e]

\* The try/except around the handler's body: what the handler returns for the
\* outcome of its body.
Finish(outcome) ==
  IF outcome.ok THEN outcome.v
  ELSE IF Caught(outcome) THEN ExceptReturn(outcome)
  ELSE Unhandled(outcome)

\* Mutant of PingReturn: another text.
PingReturnLower == Returned(200, [success |-> TRUE, message |-> "pong"])

\* jsonify({'success': True, 'message': 'Pong!'})
PingReturn == Returned(200, [success |-> TRUE, message |-> "Pong!"])

(***************************************************************************)
(* Inputs: what request.json yields for the inbound request, and what      *)
(* requests.post yields for the outbound one.                              *)
(***************************************************************************)
\* request.json raises: the body is not JSON, or the content type is not.
InboundRaises ==
  {Raise("BadRequest",
         "400 Bad Request: The browser (or proxy) sent a request that this server could not understand."),
   Raise("UnsupportedMediaType",
         "415 Unsupported Media Type: Did not attempt to load JSON data because the request Content-Type was not 'application/json'.")}

\* JSON bodies that are no object: null, an array, a string, a number.
InboundNonObjects ==
  {Ok(PyNone), Ok(PyList(<< >>)), Ok(PyStr("question")), Ok(PyInt(7))}

QuestionValues == {PyStr(""), PyStr("What is the capital of France?"), PyNone}

XmlValues ==
  {PyStr(" <map version=\"1.0.1\"><node TEXT=\"France\"/></map>\n"),
   PyStr("\n\n"), PyInt(7)}

Field(key, values) == {{}} \cup {{<<key, v>>} : v \in values}

\* JSON objects with each of the two fields absent or present.
InboundObjects ==
  {Ok(PyDict(q \cup x)) : q \in Field("question", QuestionValues),
                          x \in Field("freemind_xml", XmlValues)}

Inbound == InboundRaises \cup InboundNonObjects \cup InboundObjects

\* Texts the provider generates; a reply holds one or more spans.
SpanSeqs == {<< "Paris" >>, << " Paris is the capital. ", "Rome" >>}

RECURSIVE JoinText(_, _, _)
JoinText(spans, before, after) ==
  IF spans = << >> THEN ""
  ELSE before \o Head(spans) \o after
         \o (IF Len(spans) > 1 THEN "," ELSE "")
         \o JoinText(Tail(spans), before, after)

\* A provider body: the raw text and what response.json() makes of it.
Body(text, json) == [text |-> text, json |-> json]

\* A well-formed Anthropic Messages reply generating `spans`.
ClaudeBody(spans) ==
  Body("{\"role\":\"assistant\",\"content\":["
         \o JoinText(spans, "{\"type\":\"text\",\"text\":\"", "\"}") \o "]}",
       Ok(PyDict({<<"role", PyStr("assistant")>>,
                  <<"content",
                    PyList([i \in 1..Len(spans) |->
                              PyDict({<<"type", PyStr("text")>>,
                                      <<"text", PyStr(spans[i])>>})])>>})))

\* A well-formed OpenAI Chat Completions reply generating `spans`.
ChatGPTBody(spans) ==
  Body("{\"object\":\"chat.completion\",\"choices\":["
         \o JoinText(spans, "{\"message\":{\"role\":\"assistant\",\"content\":\"",
                     "\"}}") \o "]}",
       Ok(PyDict({<<"object", PyStr("chat.completion")>>,
                  <<"choices",
                    PyList([i \in 1..Len(spans) |->
                              PyDict({<<"message",
                                        PyDict({<<"role", PyStr("assistant")>>,
                                                <<"content", PyStr(spans[i])>>})>>})])>>})))

WellFormedBodies ==
  {ClaudeBody(s) : s \in SpanSeqs} \cup {ChatGPTBody(s) : s \in SpanSeqs}

\* Bodies that are no JSON, or JSON of another shape.
MalformedBodies ==
  {Body("<html>502 Bad Gateway</html>",
        Raise("JSONDecodeError", "Expecting value: line 1 column 1 (char 0)")),
   Body("null", Ok(PyNone)),
   Body("{}", Ok(PyDict({}))),
   Body("[]", Ok(PyList(<< >>))),
   Body("{\"content\":[]}", Ok(PyDict({<<"content", PyList(<< >>)>>}))),
   Body("{\"choices\":[]}", Ok(PyDict({<<"choices", PyList(<< >>)>>}))),
   Body("{\"content\":[{\"type\":\"tool_use\"}]}",
        Ok(PyDict({<<"content",
                     PyList(<< PyDict({<<"type", PyStr("tool_use")>>}) >>)>>}))),
   Body("{\"choices\":[{\"message\":null}]}",
        Ok(PyDict({<<"choices",
                     PyList(<< PyDict({<<"message", PyNone>>}) >>)>>})))}

\* Bodies of the expected shape whose text is JSON null.
NullTextBodies ==
  {Body("{\"content\":[{\"type\":\"text\",\"text\":null}]}",
        Ok(PyDict({<<"content",
                     PyList(<< PyDict({<<"type", PyStr("text")>>,
                                       <<"text", PyNone>>}) >>)>>}))),
   Body("{\"choices\":[{\"message\":{\"role\":\"assistant\",\"content\":null}}]}",
        Ok(PyDict({<<"choices",
                     PyList(<< PyDict({<<"message",
                                         PyDict({<<"role", PyStr("assistant")>>,
                                                 <<"content", PyNone>>})>>}) >>)>>})))}

\* The requests.Response of a reply.
Response(status_code, body) ==
  [status_code |-> status_code, text |-> body.text, json |-> body.json]

\* Replies with a status other than 200: 2xx, 3xx, 4xx, 5xx.
ErrorReplies ==
  {Response(201, ClaudeBody(<< "Paris" >>)),
   Response(201, ChatGPTBody(<< "Paris" >>)),
   Response(204, Body("", Raise("JSONDecodeError",
                                "Expecting value: line 1 column 1 (char 0)"))),
   Response(302, Body("", Raise("JSONDecodeError",
                                "Expecting value: line 1 column 1 (char 0)"))),
   Response(401, Body("{\"error\":{\"message\":\"invalid x-api-key\"}}",
                      Ok(PyDict({<<"error",
                                   PyDict({<<"message",
                                             PyStr("invalid x-api-key")>>})>>})))),
   Response(503, Body("<html>503 Service Unavailable</html>",
                      Raise("JSONDecodeError",
                            "Expecting value: line 1 column 1 (char 0)")))}

\* requests.post raises: the str() of a transport exception may be empty.
PostRaises ==
  {Raise("ConnectionError", "HTTPSConnectionPool: Max retries exceeded"),
   Raise("ConnectionError", "")}

\* Every outcome of requests.post.
PostOutcomes ==
  PostRaises
    \cup {Ok(r) : r \in ErrorReplies}
    \cup {Ok(Response(200, b)) :
            b \in WellFormedBodies \cup MalformedBodies \cup NullTextBodies}

\* The inputs of SpecConcurrent: one of each kind.
FewInbound ==
  {Raise("BadRequest",
         "400 Bad Request: The browser (or proxy) sent a request that this server could not understand."),
   Ok(PyNone),
   Ok(PyDict({})),
   Ok(PyDict({<<"question", PyStr("What is the capital of France?")>>,
              <<"freemind_xml", PyStr("\n\n")>>}))}

FewPostOutcomes ==
  {Raise("ConnectionError", "HTTPSConnectionPool: Max retries exceeded"),
   Ok(Response(401, Body("{\"error\":{\"message\":\"invalid x-api-key\"}}",
                         Ok(PyDict({<<"error",
                                      PyDict({<<"message",
                                                PyStr("invalid x-api-key")>>})>>}))))),
   Ok(Response(200, Body("{}", Ok(PyDict({}))))),
   Ok(Response(200, ClaudeBody(<< "Paris" >>))),
   Ok(Response(200, ChatGPTBody(<< "Paris" >>)))}

\* The credentials the process can start with: the content of the secret
\* file or of the environment variable, or the placeholder.
ClaudeKeys == {"sk-ant-api03-0123456789", "YOUR_API_KEY"}
OpenAIKeys == {"YOUR_OPENAI_API_KEY"}

(***************************************************************************)
(* State.                                                                  *)
(***************************************************************************)
VARIABLES
  app,             \* which of the two programs runs
  CLAUDE_API_KEY,  \* module global (API_KEY in claude_proxy.py)
  OPENAI_API_KEY,  \* module global; "" in claude_proxy.py, which has none
  pc,              \* per request: "idle", "posting" (blocked in requests.post), "done"
  route,           \* per request: the route it came in on
  inbound,         \* per request: what request.json yields
  message,         \* per request: the handler's local `message`
  posts,           \* per request: the outbound POSTs made, in order
  wire,            \* per request: the outcome of its requests.post, once there
  result           \* per request: what the handler returned

vars ==
  <<app, CLAUDE_API_KEY, OPENAI_API_KEY, pc, route, inbound, message, posts,
    wire, result>>

globals == <<app, CLAUDE_API_KEY, OPENAI_API_KEY>>

Requests == 1..MaxRequests

Init ==
  /\ app \in Apps
  /\ CLAUDE_API_KEY \in ClaudeKeys
  /\ OPENAI_API_KEY \in (IF app = "LLM_proxy" THEN OpenAIKeys ELSE {""})
  /\ pc = [r \in Requests |-> "idle"]
  /\ route = [r \in Requests |-> ""]
  /\ inbound = [r \in Requests |-> Nothing]
  /\ message = [r \in Requests |-> ""]
  /\ posts = [r \in Requests |-> << >>]
  /\ wire = [r \in Requests |-> Nothing]
  /\ result = [r \in Requests |-> Nothing]

(***************************************************************************)
(* Actions.                                                                *)
(***************************************************************************)
\* GET /api/ping; Flask hands the handler the request whatever its body.
ping(r, b) ==
  /\ pc[r] = "idle"
  /\ pc' = [pc EXCEPT ![r] = "done"]
  /\ route' = [route EXCEPT ![r] = "/api/ping"]
  /\ inbound' = [inbound EXCEPT ![r] = b]
  /\ result' = [result EXCEPT ![r] = PingReturn]
  /\ UNCHANGED <<globals, message, posts, wire>>

\* A provider handler from its entry to the call of requests.post, or to
\* its return when a statement before the call raises.
HandlerCall(r, rt, b) ==
  /\ pc[r] = "idle"
  /\ route' = [route EXCEPT ![r] = rt]
  /\ inbound' = [inbound EXCEPT ![r] = b]
  /\ LET built == BuildMessage(b)
     IN  IF built.ok
         THEN /\ message' = [message EXCEPT ![r] = built.v.s]
              /\ posts' = [posts EXCEPT ![r] =
                             @ \o OutboundCalls(
                                    OutboundPost(app, rt, CLAUDE_API_KEY,
                                                 OPENAI_API_KEY, built.v.s))]
              /\ pc' = [pc EXCEPT ![r] = "posting"]
              /\ UNCHANGED result
         ELSE /\ result' = [result EXCEPT ![r] = Finish(built)]
              /\ pc' = [pc EXCEPT ![r] = "done"]
              /\ UNCHANGED <<message, posts>>
  /\ UNCHANGED <<globals, wire>>

\* The provider answers the outbound call of request r, or the call fails.
ProviderReplies(r, o) ==
  /\ pc[r] = "posting"
  /\ wire[r] = Nothing
  /\ wire' = [wire EXCEPT ![r] = o]
  /\ UNCHANGED <<globals, pc, route, inbound, message, posts, result>>

\* Mutant of PostResult: the response kept in one place for all requests.
PostResultShared(r) == IF wire[1] # Nothing THEN wire[1] ELSE wire[r]

\* response = requests.post(...): the outcome of the handler's own call.
PostResult(r) == wire[r]

\* A provider handler from the return of requests.post to its own return.
HandlerReturn(r, rt) ==
  /\ pc[r] = "posting"
  /\ wire[r] # Nothing
  /\ LET post == PostResult(r)
     IN  result' = [result EXCEPT ![r] =
                      Finish(IF post.ok THEN AfterPost(rt, post.v) ELSE post)]
  /\ pc' = [pc EXCEPT ![r] = "done"]
  /\ UNCHANGED <<globals, route, inbound, message, posts, wire>>

\* @app.route('/api/claude', methods=['POST'])
proxy_to_claude(r, b) ==
  /\ "/api/claude" \in ProviderRoutes(app)
  /\ HandlerCall(r, "/api/claude", b)

proxy_to_claude_return(r) ==
  /\ route[r] = "/api/claude"
  /\ HandlerReturn(r, "/api/claude")

\* @app.route('/api/chatgpt', methods=['POST'])
proxy_to_chatgpt(r, b) ==
  /\ "/api/chatgpt" \in ProviderRoutes(app)
  /\ HandlerCall(r, "/api/chatgpt", b)

proxy_to_chatgpt_return(r) ==
  /\ route[r] = "/api/chatgpt"
  /\ HandlerReturn(r, "/api/chatgpt")

\* One request, every input.
Next ==
  \/ \E b \in Inbound : ping(1, b)
  \/ \E b \in Inbound : proxy_to_claude(1, b)
  \/ \E b \in Inbound : proxy_to_chatgpt(1, b)
  \/ \E o \in PostOutcomes : ProviderReplies(1, o)
  \/ proxy_to_claude_return(1)
  \/ proxy_to_chatgpt_return(1)

Spec == Init /\ [][Next]_vars

\* Requests served concurrently, their steps interleaved.
NextConcurrent ==
  \E r \in Requests :
    \/ \E b \in FewInbound : ping(r, b)
    \/ \E b \in FewInbound : proxy_to_claude(r, b)
    \/ \E b \in FewInbound : proxy_to_chatgpt(r, b)
    \/ \E o \in FewPostOutcomes : ProviderReplies(r, o)
    \/ proxy_to_claude_return(r)
    \/ proxy_to_chatgpt_return(r)

SpecConcurrent == Init /\ [][NextConcurrent]_vars

\* The handler thread runs on once requests.post has returned; the provider
\* is not obliged to answer (no timeout is set on the call).
SpecLive ==
  /\ Spec
  /\ WF_vars(proxy_to_claude_return(1))
  /\ WF_vars(proxy_to_chatgpt_return(1))

(***************************************************************************)
(* Properties.                                                             *)
(***************************************************************************)
Served(r) == pc[r] = "done" /\ route[r] \in {"/api/claude", "/api/chatgpt"}

Called(r) == pc[r] # "idle" /\ route[r] \in {"/api/claude", "/api/chatgpt"}

\* C1: every envelope a provider handler returns, on every path, has
\* success=true only with `response` present and `error`, `details` absent,
\* and success=false only with `error` present.
C1_EnvelopeShape ==
  \A r \in Requests :
    (Served(r) /\ "envelope" \in DOMAIN result[r]) =>
      LET e == result[r].envelope
      IN  /\ "success" \in DOMAIN e
          /\ e.success \in BOOLEAN
          /\ e.success =>
               /\ "response" \in DOMAIN e
               /\ "error" \notin DOMAIN e
               /\ "details" \notin DOMAIN e
          /\ ~e.success => "error" \in DOMAIN e

\* C1 witness: a handler returned from its except clause, after its
\* outbound call raised.
C1_Witness ==
  \E r \in Requests :
    /\ Served(r)
    /\ wire[r] # Nothing
    /\ ~wire[r].ok
    /\ result[r].envelope.success = FALSE
    /\ DOMAIN result[r].envelope = {"success", "error"}

\* C2: a provider status other than 200 is answered with HTTP 500 and
\* {success:false, error:"API error: <status>", details:<raw body>}.
C2_Non200Remapped ==
  \A r \in Requests :
    (Served(r) /\ wire[r] # Nothing /\ wire[r].ok
       /\ wire[r].v.status_code # 200) =>
      /\ result[r].http = 500
      /\ result[r].envelope =
           [success |-> FALSE,
            error |-> "API error: " \o ToString(wire[r].v.status_code),
            details |-> wire[r].v.text]

\* C2 witness: the provider answered 201 with a well-formed body and the
\* relay answered 500.
C2_Witness ==
  \E r \in Requests :
    /\ Served(r)
    /\ wire[r] = Ok(Response(201, ChatGPTBody(<< "Paris" >>)))
    /\ result[r].http = 500
    /\ result[r].envelope.error = "API error: 201"

\* C3: a provider 200 with a well-formed body is answered with HTTP 200 and
\* {success:true, response:t}, t the first generated span, unchanged.
C3_FirstSpanVerbatim ==
  \A r \in Requests : \A s \in SpanSeqs :
    (Served(r) /\
       \/ route[r] = "/api/claude" /\ wire[r] = Ok(Response(200, ClaudeBody(s)))
       \/ route[r] = "/api/chatgpt" /\ wire[r] = Ok(Response(200, ChatGPTBody(s)))) =>
      result[r] = [http |-> 200,
                   envelope |-> [success |-> TRUE, response |-> PyStr(s[1])]]

\* C3 witness: the stubbed ChatGPT body with content "Paris" came back as
\* {success:true, response:"Paris"}.
C3_Witness ==
  \E r \in Requests :
    /\ Served(r)
    /\ route[r] = "/api/chatgpt"
    /\ wire[r] = Ok(Response(200, ChatGPTBody(<< "Paris" >>)))
    /\ result[r].envelope = [success |-> TRUE, response |-> PyStr("Paris")]

\* C4: whenever the outbound call raises, the relay answers HTTP 500 with
\* success:false and a non-empty error string, whatever the exception.
C4_ErrorNonEmpty ==
  \A r \in Requests :
    (Served(r) /\ wire[r] # Nothing /\ ~wire[r].ok) =>
      /\ result[r].http = 500
      /\ result[r].envelope.success = FALSE
      /\ result[r].envelope.error # ""

\* The value the claim substitutes for a field: its own, or "" when the
\* body has no such field.
Substituted(v, key) ==
  IF v.t = "dict" /\ HasKey(v, key) THEN ValueAt(v, key) ELSE PyStr("")

LacksField(v) ==
  \/ v.t # "dict"
  \/ ~HasKey(v, "question")
  \/ ~HasKey(v, "freemind_xml")

\* C5: a request whose body lacks question and/or freemind_xml (an empty
\* object, null, a value that is no object) is never rejected: the handler
\* builds the prompt with "" for each absent field and makes the outbound
\* call.
C5_MissingFieldsProceed ==
  \A r \in Requests :
    (Called(r) /\ inbound[r].ok /\ LacksField(inbound[r].v)) =>
      /\ Len(posts[r]) = 1
      /\ posts[r][1].json.messages[1].content =
           "Using the mind map represented by the following Freemind XML, please answer the following question: "
             \o Format(Substituted(inbound[r].v, "question")) \o "\n\n"
             \o Format(Substituted(inbound[r].v, "freemind_xml"))

\* C6: for strings question and freemind_xml the one user message of the
\* outbound payload is the instruction, question, two newlines, freemind_xml.
C6_PromptExact ==
  \A r \in Requests :
    (Called(r) /\ inbound[r].ok /\ ~LacksField(inbound[r].v)
       /\ ValueAt(inbound[r].v, "question").t = "str"
       /\ ValueAt(inbound[r].v, "freemind_xml").t = "str") =>
      /\ Len(posts[r]) = 1
      /\ posts[r][1].json.messages =
           << [role |-> "user",
               content |->
                 "Using the mind map represented by the following Freemind XML, please answer the following question: "
                   \o ValueAt(inbound[r].v, "question").s \o "\n\n"
                   \o ValueAt(inbound[r].v, "freemind_xml").s] >>

\* C6 witness: the test's question with a document that starts with a blank
\* and ends with a newline went out, in claude_proxy.py's handler.
C6_Witness ==
  \E r \in Requests :
    /\ Called(r)
    /\ app = "claude_proxy"
    /\ inbound[r] =
         Ok(PyDict({<<"question", PyStr("What is the capital of France?")>>,
                    <<"freemind_xml",
                      PyStr(" <map version=\"1.0.1\"><node TEXT=\"France\"/></map>\n")>>}))
    /\ Len(posts[r]) = 1

\* A 200 reply whose body is no JSON or has not the shape the route expects:
\* a malformed body, or the other provider's well-formed one.
Malformed200(rt, w) ==
  /\ w # Nothing
  /\ w.ok
  /\ w.v.status_code = 200
  /\ \/ \E b \in MalformedBodies : w.v = Response(200, b)
     \/ \E s \in SpanSeqs :
          w.v = Response(200, IF rt = "/api/claude" THEN ChatGPTBody(s)
                              ELSE ClaudeBody(s))

C7_AlwaysEnvelope ==
  \A r \in Requests :
    Served(r) =>
      /\ "envelope" \in DOMAIN result[r]
      /\ result[r].http \in {200, 500}
      /\ Malformed200(route[r], wire[r]) =>
           /\ result[r].http = 500
           /\ result[r].envelope.success = FALSE
           /\ "error" \in DOMAIN result[r].envelope

\* C7: every run of a provider handler ends by returning a JSON envelope with
\* HTTP 200 or 500, no exception leaves it, and a 200 reply that is no JSON
\* or has not the expected shape yields HTTP 500 with success:false and an
\* error string; once requests.post has returned, the handler does return.
C7_NothingEscapes ==
  /\ []C7_AlwaysEnvelope
  /\ (wire[1] # Nothing) ~> (pc[1] = "done")

\* C7 witness: a 200 reply with an HTML body was answered with HTTP 500.
C7_Witness ==
  \E r \in Requests :
    /\ Served(r)
    /\ wire[r] # Nothing
    /\ wire[r].ok
    /\ wire[r].v.status_code = 200
    /\ wire[r].v.text = "<html>502 Bad Gateway</html>"
    /\ result[r].http = 500

C8_PongAlways ==
  \A r \in Requests :
    (pc[r] = "done" /\ route[r] = "/api/ping") =>
      /\ result[r] = [http |-> 200,
                      envelope |-> [success |-> TRUE, message |-> "Pong!"]]
      /\ posts[r] = << >>
      /\ wire[r] = Nothing

C8_PingStep ==
  \A r \in Requests :
    (pc[r] = "idle" /\ route'[r] = "/api/ping") =>
      /\ UNCHANGED <<globals, message, posts, wire>>
      /\ \A q \in Requests \ {r} :
           /\ pc'[q] = pc[q]
           /\ route'[q] = route[q]
           /\ inbound'[q] = inbound[q]
           /\ result'[q] = result[q]

\* C8: ping() answers HTTP 200 with exactly {success:true, message:"Pong!"}
\* whatever the request body and whatever the other requests are doing,
\* makes no outbound call and changes no state of the process.
C8_PingPure == []C8_PongAlways /\ [][C8_PingStep]_vars

\* C8 witness: a ping with a body that is no JSON was answered while another
\* request was blocked in its outbound call.
C8_Witness ==
  \E r, q \in Requests :
    /\ pc[r] = "done"
    /\ route[r] = "/api/ping"
    /\ ~inbound[r].ok
    /\ pc[q] = "posting"

\* C9: each inbound request makes at most one outbound POST: exactly one
\* when its body was parsed, none when parsing raised.
C9_OnePostPerParsedRequest ==
  \A r \in Requests :
    Called(r) =>
      /\ Len(posts[r]) <= 1
      /\ inbound[r].ok => Len(posts[r]) = 1
      /\ ~inbound[r].ok => Len(posts[r]) = 0

\* What request r's own body and own reply determine.
OwnPosts(r) ==
  LET built == BuildMessage(inbound[r])
  IN  IF built.ok
      THEN << OutboundPost(app, route[r], CLAUDE_API_KEY, OPENAI_API_KEY,
                           built.v.s) >>
      ELSE << >>

OwnResult(r) ==
  LET built == BuildMessage(inbound[r])
  IN  IF ~built.ok THEN Finish(built)
      ELSE Finish(IF wire[r].ok THEN AfterPost(route[r], wire[r].v)
                  ELSE wire[r])

C10_OwnInputsOnly ==
  \A r \in Requests :
    /\ Called(r) => posts[r] = OwnPosts(r)
    /\ Served(r) => result[r] = OwnResult(r)

\* C10: under any interleaving of concurrent requests no handler writes the
\* process-wide state (the credentials stay as set at start), and what a
\* request is answered depends only on its own body and on the reply to its
\* own outbound call.
C10_NoSharedState == []C10_OwnInputsOnly /\ [][UNCHANGED globals]_vars

\* C10 witness: two requests on the same route with the same body, answered
\* differently because the replies to their own calls differed.
C10_Witness ==
  \E r, q \in Requests :
    /\ r < q
    /\ Served(r)
    /\ Served(q)
    /\ route[r] = route[q]
    /\ inbound[r] = inbound[q]
    /\ wire[r] # Nothing
    /\ wire[q] # Nothing
    /\ wire[r] # wire[q]
    /\ result[r].http = 500
    /\ result[q].http = 200
=============================================================================
